---- MODULE Spec2Model ----
(***************************************************************************)
(* Model of depper (src/src/lib.rs): DependenciesBuilder (add_element,     *)
(* add_edges, dependencies_are_met, no_cyclic_dependencies, validate,      *)
(* build) and Dependencies (find_node_by_name, generate_tranches).         *)
(*                                                                         *)
(* A petgraph DiGraph<String, ()> is a record                              *)
(*   [nodes : sequence of node weights, edges : bag of <<source, target>>] *)
(* The node with NodeIndex i of the code is position i + 1 of nodes.       *)
(* Edges carry no weight and no operation of the program reads an edge     *)
(* index, so the edge list is kept as a bag: parallel edges are counted.   *)
(***************************************************************************)
EXTENDS Naturals, Integers, Sequences, FiniteSets, Bags, TLC

\* Element and dependency names the caller may pass.
NameOrder == <<"a", "b", "c">>

Names == {NameOrder[i] : i \in DOMAIN NameOrder}

\* Cap on the length of all_dependencies (the Vec only ever grows).
MaxAllDeps == 3

\* Cap on the number of build() calls on the builder.
MaxBuilds == 2

VARIABLES
    all_elements,      \* DependenciesBuilder.all_elements : Vec<String>
    all_dependencies,  \* DependenciesBuilder.all_dependencies : Vec<String>
    graph,             \* DependenciesBuilder.graph : DiGraph<String, ()>
    dependency_map,    \* DependenciesBuilder.dependency_map : name -> (NodeIndex, Vec<String>)
    outcome,           \* what the latest build() call returned
    dirty,             \* add_element was called since the latest build() call
    builds,            \* how many build() calls the caller has made
    dependencies,      \* the Dependencies value of the latest successful build()
    registered,        \* the caller's record: each name registered so far -> the last list passed for it
    built_map,         \* `registered` as it was when `dependencies` was built
    tranches           \* what the latest generate_tranches() on `dependencies` returned

vars == <<all_elements, all_dependencies, graph, dependency_map,
          outcome, dirty, builds, dependencies, registered, built_map, tranches>>

-----------------------------------------------------------------------------
(* Values *)

MissingDependency == "Some dependencies do not exist as elements"

CyclicDependency == "Cyclic dependency detected"

NodeNotFound == "Node not found"

OkOutcome == "Ok"

\* No build() call yet.
NotBuilt == "not built"

\* HashMap's Index panics on a key that is not in the map (add_edges, line 79).
Panic == "panic"

\* Option::None of an Option<NodeIndex> (node positions start at 1).
None == 0

NoDependencies == [held |-> FALSE]

NoTranches == [called |-> FALSE]

\* All sequences over S of length at most n.
SeqsUpTo(S, n) == UNION {[1..k -> S] : k \in 0..n}

Range(s) == {s[i] : i \in DOMAIN s}

Max(S) == CHOOSE x \in S : \A y \in S : y <= x

Min(S) == CHOOSE x \in S : \A y \in S : x <= y

-----------------------------------------------------------------------------
(* petgraph::Graph operations used by the program *)

\* DiGraph::new()
NewGraph == [nodes |-> <<>>, edges |-> EmptyBag]

\* Graph::add_node: appends the weight; the new node's position is Len(nodes) + 1.
add_node(g, weight) == [g EXCEPT !.nodes = Append(@, weight)]

\* Graph::add_edge: one more edge a -> b; parallel edges and self loops are allowed.
add_edge(g, a, b) == [g EXCEPT !.edges = @ (+) SetToBag({<<a, b>>})]

\* Graph::clear_edges: drops every edge, keeps the nodes.
clear_edges(g) == [g EXCEPT !.edges = EmptyBag]

\* Graph::node_count
node_count(g) == Len(g.nodes)

\* neighbors_directed(node, Outgoing).count(): one per outgoing edge.
outgoing_count(g, node) ==
    BagCardinality([p \in {q \in DOMAIN g.edges : q[1] = node} |-> g.edges[p]])

\* Graph::remove_node(a): None (graph untouched) when a is out of bounds;
\* otherwise every edge from or to a is removed, the last node is swapped into
\* a's position and the endpoints of its edges are rewritten to that position.
remove_node(g, a) ==
    IF a \notin DOMAIN g.nodes THEN g
    ELSE LET last == Len(g.nodes)
             kept == {p \in DOMAIN g.edges : p[1] # a /\ p[2] # a}
             moved(i) == IF i = last THEN a ELSE i
             origin(i) == IF i = a THEN last ELSE i
         IN  [nodes |-> [i \in 1..(last - 1) |->
                            IF i = a THEN g.nodes[last] ELSE g.nodes[i]],
              edges |-> [q \in {<<moved(p[1]), moved(p[2])>> : p \in kept} |->
                            g.edges[<<origin(q[1]), origin(q[2])>>]]]

\* Nodes reachable from the nodes of S along one or more edges.
RECURSIVE ReachFrom(_, _, _)
ReachFrom(E, S, seen) ==
    LET next == {p[2] : p \in {q \in E : q[1] \in S}} \ seen
    IN  IF next = {} THEN seen ELSE ReachFrom(E, next, seen \cup next)

\* petgraph::algo::is_cyclic_directed: some node reaches itself (a self loop counts).
is_cyclic_directed(g) ==
    \E n \in DOMAIN g.nodes : n \in ReachFrom(DOMAIN g.edges, {n}, {})

-----------------------------------------------------------------------------
(* DependenciesBuilder *)

\* Dependencies::builder()
builder == [all_elements     |-> <<>>,
            all_dependencies |-> <<>>,
            graph            |-> NewGraph,
            dependency_map   |-> <<>>]

\* add_element as it would be if a later registration of a known name left the
\* stored list alone (first write wins).
add_element_keeps_first(b, name, dependecies) ==
    LET extended == [b EXCEPT !.all_dependencies = @ \o dependecies]
    IN  IF name \in DOMAIN extended.dependency_map
        THEN extended
        ELSE [extended EXCEPT
                 !.all_elements = Append(@, name),
                 !.graph = add_node(@, name),
                 !.dependency_map =
                     [n \in DOMAIN @ \cup {name} |->
                         IF n = name
                         THEN [node |-> Len(extended.graph.nodes) + 1,
                               deps |-> dependecies]
                         ELSE @[n]]]

\* add_element as it would be without the branch for a known name: every
\* registration pushes the name, adds a node and stores the new handle.
add_element_new_node(b, name, dependecies) ==
    LET extended == [b EXCEPT !.all_dependencies = @ \o dependecies]
    IN  [extended EXCEPT
            !.all_elements = Append(@, name),
            !.graph = add_node(@, name),
            !.dependency_map =
                [n \in DOMAIN @ \cup {name} |->
                    IF n = name
                    THEN [node |-> Len(extended.graph.nodes) + 1, deps |-> dependecies]
                    ELSE @[n]]]

\* DependenciesBuilder::add_element
add_element(b, name, dependecies) ==
    LET extended == [b EXCEPT !.all_dependencies = @ \o dependecies]
    IN  IF name \in DOMAIN extended.dependency_map
        THEN LET graph_node == extended.dependency_map[name].node
             IN  [extended EXCEPT !.dependency_map[name] =
                                      [node |-> graph_node, deps |-> dependecies]]
        ELSE LET node == Len(extended.graph.nodes) + 1
             IN  [extended EXCEPT
                     !.all_elements = Append(@, name),
                     !.graph = add_node(@, name),
                     !.dependency_map =
                         [n \in DOMAIN @ \cup {name} |->
                             IF n = name THEN [node |-> node, deps |-> dependecies]
                                         ELSE @[n]]]

\* The (element, position in its list) pairs add_edges walks: one per stored dependency.
EdgePairs(m) == UNION {{<<n, k>> : k \in DOMAIN m[n].deps} : n \in DOMAIN m}

\* The two nested loops of add_edges, one graph.add_edge per pair still to do.
\* HashMap::values() yields the entries in an unspecified order; the resulting
\* multiset of edges does not depend on it.
RECURSIVE add_edges_loop(_, _, _)
add_edges_loop(g, m, todo) ==
    IF todo = {} THEN g
    ELSE LET e == CHOOSE x \in todo : TRUE
             node == m[e[1]].node
             dependency_node == m[m[e[1]].deps[e[2]]].node
         IN  add_edges_loop(add_edge(g, node, dependency_node), m, todo \ {e})

\* add_edges indexes dependency_map by every stored dependency name.
add_edges_panics(b) ==
    \E e \in EdgePairs(b.dependency_map) :
        b.dependency_map[e[1]].deps[e[2]] \notin DOMAIN b.dependency_map

\* add_edges as it would be if the inner loop stopped after the first dependency.
add_edges_first_only(b) ==
    [b EXCEPT !.graph =
        add_edges_loop(@, b.dependency_map,
                       {e \in EdgePairs(b.dependency_map) : e[2] = 1})]

\* DependenciesBuilder::add_edges
add_edges(b) ==
    [b EXCEPT !.graph = add_edges_loop(@, b.dependency_map, EdgePairs(b.dependency_map))]

\* dependencies_are_met as it would be with any() in place of all().
dependencies_are_met_any(b) ==
    LET elements_set == Range(b.all_elements)
    IN  \E i \in DOMAIN b.all_dependencies : b.all_dependencies[i] \in elements_set

\* DependenciesBuilder::dependencies_are_met
dependencies_are_met(b) ==
    LET elements_set == Range(b.all_elements)
    IN  \A i \in DOMAIN b.all_dependencies : b.all_dependencies[i] \in elements_set

\* petgraph::algo::is_cyclic_undirected: the edges, direction forgotten, are no
\* forest (a self loop and a pair of parallel edges are cycles).
is_cyclic_undirected(g) ==
    LET either == DOMAIN g.edges \cup {<<p[2], p[1]>> : p \in DOMAIN g.edges}
        component(n) == {n} \cup ReachFrom(either, {n}, {})
        components == {component(n) : n \in DOMAIN g.nodes}
    IN  BagCardinality(g.edges) > node_count(g) - Cardinality(components)

\* no_cyclic_dependencies as it would be with is_cyclic_undirected.
no_cyclic_dependencies_undirected(b) == ~is_cyclic_undirected(b.graph)

\* no_cyclic_dependencies as it would be if it never found a cycle.
no_cyclic_dependencies_unchecked(b) == TRUE

\* DependenciesBuilder::no_cyclic_dependencies
no_cyclic_dependencies(b) == ~is_cyclic_directed(b.graph)

\* validate as it would be with the cycle check made before the check of the
\* dependency names.
validate_cycle_first(b) ==
    IF add_edges_panics(b)
    THEN [builder |-> b, result |-> Panic]
    ELSE LET edged == add_edges(b)
         IN  IF ~no_cyclic_dependencies(edged)
             THEN [builder |-> edged, result |-> CyclicDependency]
             ELSE IF ~dependencies_are_met(edged)
             THEN [builder |-> edged, result |-> MissingDependency]
             ELSE [builder |-> [edged EXCEPT !.graph = clear_edges(@)],
                   result  |-> OkOutcome]

\* DependenciesBuilder::validate: the builder afterwards and Ok(()) or the error.
validate(b) ==
    IF ~dependencies_are_met(b)
    THEN [builder |-> b, result |-> MissingDependency]
    ELSE IF add_edges_panics(b)
    THEN [builder |-> b, result |-> Panic]
    ELSE LET edged == add_edges(b)
         IN  IF ~no_cyclic_dependencies(edged)
             THEN [builder |-> edged, result |-> CyclicDependency]
             ELSE [builder |-> [edged EXCEPT !.graph = clear_edges(@)],
                   result  |-> OkOutcome]

\* DependenciesBuilder::build: the builder afterwards, the outcome, and on Ok the
\* Dependencies value (a clone of the builder's graph).
build(b) ==
    LET validated == validate(b)
    IN  IF validated.result # OkOutcome
        THEN [builder |-> validated.builder, result |-> validated.result,
              dependencies |-> NoDependencies]
        ELSE LET edged == add_edges(validated.builder)
             IN  [builder |-> edged, result |-> OkOutcome,
                  dependencies |-> [held |-> TRUE, graph |-> edged.graph]]

-----------------------------------------------------------------------------
(* Dependencies *)

\* find_node_by_name as it would be if it counted the nodes from the wrong base:
\* the handle before the one of the node found.
find_node_by_name_off_by_one(g, name) ==
    LET found == {i \in DOMAIN g.nodes : g.nodes[i] = name}
    IN  IF found = {} THEN None ELSE Min(found) - 1

\* Dependencies::find_node_by_name: the first node, in index order, with that weight.
find_node_by_name(g, name) ==
    LET found == {i \in DOMAIN g.nodes : g.nodes[i] = name}
    IN  IF found = {} THEN None ELSE Min(found)

\* neighbors_directed(node, Incoming).count(): one per incoming edge.
incoming_count(g, node) ==
    BagCardinality([p \in {q \in DOMAIN g.edges : q[2] = node} |-> g.edges[p]])

\* The first inner loop as it would be with Direction::Incoming.
node_to_remove_incoming(g) ==
    SelectSeq([i \in 1..node_count(g) |-> <<i, g.nodes[i]>>],
              LAMBDA e : incoming_count(g, e[1]) = 0)

\* The first inner loop as it would be with the test `<= 1` in place of `== 0`.
node_to_remove_at_most_one(g) ==
    SelectSeq([i \in 1..node_count(g) |-> <<i, g.nodes[i]>>],
              LAMBDA e : outgoing_count(g, e[1]) <= 1)

\* The first inner loop of generate_tranches: the (index, name) of every node
\* without outgoing edge, in index order.
node_to_remove_of(g) ==
    SelectSeq([i \in 1..node_count(g) |-> <<i, g.nodes[i]>>],
              LAMBDA e : outgoing_count(g, e[1]) = 0)

\* The second inner loop as it would be if it removed the node at the index
\* collected by the first loop, without looking the name up again.
RECURSIVE remove_layer_by_index(_, _, _)
remove_layer_by_index(g, node_to_remove, new_layer) ==
    IF node_to_remove = <<>>
    THEN [error |-> FALSE, graph |-> g, new_layer |-> new_layer]
    ELSE remove_layer_by_index(remove_node(g, Head(node_to_remove)[1]),
                               Tail(node_to_remove),
                               Append(new_layer, Head(node_to_remove)[2]))

\* The second inner loop of generate_tranches: each collected name is looked up
\* again by name, its node removed and the name pushed on the layer.
RECURSIVE remove_layer(_, _, _)
remove_layer(g, node_to_remove, new_layer) ==
    IF node_to_remove = <<>>
    THEN [error |-> FALSE, graph |-> g, new_layer |-> new_layer]
    ELSE LET node_name == Head(node_to_remove)[2]
             node_index == find_node_by_name(g, node_name)
         IN  IF node_index = None
             THEN [error |-> TRUE, graph |-> g, new_layer |-> new_layer]
             ELSE remove_layer(remove_node(g, node_index),
                               Tail(node_to_remove),
                               Append(new_layer, node_name))

\* The while loop of generate_tranches.  With nodes left and none of them free of
\* outgoing edges an iteration removes nothing, so the loop never ends: that
\* outcome is reported as diverged.
RECURSIVE tranche_loop(_, _)
tranche_loop(traverse_graph, acc) ==
    IF node_count(traverse_graph) = 0
    THEN [called |-> TRUE, result |-> OkOutcome, tranches |-> acc, diverged |-> FALSE]
    ELSE LET node_to_remove == node_to_remove_of(traverse_graph)
             layer == remove_layer(traverse_graph, node_to_remove, <<>>)
         IN  IF node_to_remove = <<>>
             THEN [called |-> TRUE, result |-> OkOutcome, tranches |-> acc,
                   diverged |-> TRUE]
             ELSE IF layer.error
             THEN [called |-> TRUE, result |-> NodeNotFound, tranches |-> <<>>,
                   diverged |-> FALSE]
             ELSE tranche_loop(layer.graph, Append(acc, layer.new_layer))

\* Dependencies::generate_tranches
generate_tranches(d) == tranche_loop(d.graph, <<>>)

\* generate_tranches as it would leave the Dependencies value if the loop ran on
\* self.graph itself: every node removed.
drained_by_generate_tranches(d) == [d EXCEPT !.graph = NewGraph]

\* The Dependencies value after generate_tranches(&self): the loop removes the
\* nodes of traverse_graph, a clone (line 137), so self.graph is as it was.
after_generate_tranches(d) == d

-----------------------------------------------------------------------------
(* The state machine: a caller owning one builder *)

Builder == [all_elements     |-> all_elements,
            all_dependencies |-> all_dependencies,
            graph            |-> graph,
            dependency_map   |-> dependency_map]

SetBuilder(b) ==
    /\ all_elements' = b.all_elements
    /\ all_dependencies' = b.all_dependencies
    /\ graph' = b.graph
    /\ dependency_map' = b.dependency_map

Init ==
    /\ all_elements = builder.all_elements
    /\ all_dependencies = builder.all_dependencies
    /\ graph = builder.graph
    /\ dependency_map = builder.dependency_map
    /\ outcome = NotBuilt
    /\ dirty = FALSE
    /\ builds = 0
    /\ dependencies = NoDependencies
    /\ registered = <<>>
    /\ built_map = <<>>
    /\ tranches = NoTranches

\* The names are only ever compared for equality, so the elements are taken to
\* be first registered in the order a, b, c; dependency lists name any of them.
CanRegister ==
    DOMAIN registered \cup
        {NameOrder[i] : i \in {j \in DOMAIN NameOrder : j = Cardinality(DOMAIN registered) + 1}}

\* builder = builder.add_element(name, dependecies).  Registrations are followed
\* while a build() can still come after them: none of the calls left after the
\* last build() reads the builder.
AddElement ==
    /\ builds < MaxBuilds
    /\ \E name \in CanRegister :
        \E dependecies \in SeqsUpTo(Names, MaxAllDeps - Len(all_dependencies)) :
            /\ SetBuilder(add_element(Builder, name, dependecies))
            /\ dirty' = TRUE
            /\ registered' = [n \in DOMAIN registered \cup {name} |->
                                 IF n = name THEN dependecies ELSE registered[n]]
            /\ UNCHANGED <<outcome, builds, dependencies, built_map, tranches>>

\* builder.build(): on Ok the caller keeps the new Dependencies value, on an
\* error it keeps the one it had.
Build ==
    /\ builds < MaxBuilds
    /\ builds' = builds + 1
    /\ UNCHANGED registered
    /\ LET built == build(Builder)
       IN  /\ SetBuilder(built.builder)
           /\ outcome' = built.result
           /\ dirty' = FALSE
           /\ IF built.result = OkOutcome
              THEN /\ dependencies' = built.dependencies
                   /\ built_map' = registered
                   /\ tranches' = NoTranches
              ELSE UNCHANGED <<dependencies, built_map, tranches>>

\* dependencies.generate_tranches()
GenerateTranches ==
    /\ dependencies.held
    /\ tranches' = generate_tranches(dependencies)
    /\ dependencies' = after_generate_tranches(dependencies)
    /\ UNCHANGED <<all_elements, all_dependencies, graph, dependency_map,
                   outcome, dirty, builds, registered, built_map>>

Next == AddElement \/ Build \/ GenerateTranches

Spec == Init /\ [][Next]_vars

-----------------------------------------------------------------------------
(* Vocabulary of the properties *)

\* In the properties a mapping is a function from element names to dependency
\* lists: `registered`, or `built_map`.

\* The names an element's dependency list holds.
DepSet(m, n) == Range(m[n])

\* The dependency relation of a mapping, as <<element, dependency>> pairs.
DependsOn(m) == UNION {{<<n, d>> : d \in DepSet(m, n)} : n \in DOMAIN m}

\* Every dependency name of the map is a key of the map.
Complete(m) == \A p \in DependsOn(m) : p[2] \in DOMAIN m

\* Some element of the map depends on itself, directly or through others.
CyclicMap(m) == \E n \in DOMAIN m : n \in ReachFrom(DependsOn(m), {n}, {})

\* The number of edges of a graph, parallel edges counted.
edge_count(g) == BagCardinality(g.edges)

\* The edges of a graph, read through the node weights.
NameEdges(g) == {<<g.nodes[p[1]], g.nodes[p[2]]>> : p \in DOMAIN g.edges}

\* The latest call on the builder was build(): it ran on the mapping `registered`.
JustBuilt == builds > 0 /\ ~dirty

\* This step is a build() call.
IsBuild == builds' = builds + 1

\* generate_tranches() has returned Ok for the Dependencies value held.
GeneratedOk == tranches.called /\ tranches.result = OkOutcome /\ ~tranches.diverged

Layers == tranches.tranches

RECURSIVE Flatten(_)
Flatten(t) == IF t = <<>> THEN <<>> ELSE Head(t) \o Flatten(Tail(t))

\* The names of the tranches before tranche k.
PlacedBefore(t, k) == UNION {Range(t[i]) : i \in 1..(k - 1)}

\* The tranches as sets of names, order within a tranche forgotten.
TrancheSets(t) == [k \in DOMAIN t |-> Range(t[k])]

\* Number of edges of the longest dependency chain starting at n (fuel: a chain
\* of an acyclic map has fewer edges than the map has elements).
RECURSIVE LongestChain(_, _, _)
LongestChain(m, n, fuel) ==
    IF fuel = 0 \/ n \notin DOMAIN m \/ DepSet(m, n) = {} THEN 0
    ELSE 1 + Max({LongestChain(m, d, fuel - 1) : d \in DepSet(m, n)})

Depth(m, n) == LongestChain(m, n, Cardinality(DOMAIN m))

\* Every order in which the keys of a map can be registered.
Orders(S) == {o \in [1..Cardinality(S) -> S] : Range(o) = S}

\* A fresh builder on which each key of m is registered once, in the order o,
\* with its list of m.
RECURSIVE Registered(_, _)
Registered(m, o) ==
    IF o = <<>> THEN builder
    ELSE LET n == o[Len(o)]
         IN  add_element(Registered(m, SubSeq(o, 1, Len(o) - 1)), n, m[n])

-----------------------------------------------------------------------------
(* C1 .. C10 *)

\* C1 - dependency precedence: generate_tranches() on the value of a successful
\* build() returns Ok, and whenever B is in A's final dependency list, B and A
\* are both placed and every tranche holding B comes strictly before every
\* tranche holding A.
C1_DependencyPrecedence ==
    tranches.called =>
        /\ GeneratedOk
        /\ \A p \in DependsOn(built_map) :
              /\ \E i \in DOMAIN Layers : p[2] \in Range(Layers[i])
              /\ \E j \in DOMAIN Layers : p[1] \in Range(Layers[j])
              /\ \A i, j \in DOMAIN Layers :
                    p[2] \in Range(Layers[i]) /\ p[1] \in Range(Layers[j]) => i < j

\* Tranches were generated for a chain A -> B -> C of dependencies.
C1_Witness ==
    /\ GeneratedOk
    /\ \E p, q \in DependsOn(built_map) : p[2] = q[1]

\* C2 - tranche partition: the tranches, laid end to end, list every declared
\* element exactly once and nothing else.
C2_TranchePartition ==
    tranches.called =>
        /\ GeneratedOk
        /\ Len(Flatten(Layers)) = Cardinality(DOMAIN built_map)
        /\ Range(Flatten(Layers)) = DOMAIN built_map

\* The first tranche removed node 0 and then the node that was last: removing
\* node 0 moved that node to index 0 before it was looked up.
C2_Witness ==
    /\ GeneratedOk
    /\ node_count(dependencies.graph) = 3
    /\ Len(Layers) = 2
    /\ Layers[1] = <<dependencies.graph.nodes[1], dependencies.graph.nodes[3]>>

\* C3 - cycle rejection: the first build() on a builder whose final mapping has
\* every dependency name declared and holds a cycle returns CyclicDependency,
\* and no Dependencies value is produced.
C3_CycleRejection ==
    (JustBuilt /\ builds = 1 /\ Complete(registered) /\ CyclicMap(registered))
        => outcome = CyclicDependency /\ ~dependencies.held

\* C4 - referential integrity rejection: a build() on a mapping in which some
\* dependency list names an element that is not registered returns
\* MissingDependency and hands out no Dependencies value.
C4_MissingRejection ==
    [][(IsBuild /\ ~Complete(registered))
          => outcome' = MissingDependency /\ dependencies' = dependencies]_vars

\* build() has returned MissingDependency on a mapping without any cycle.
C4_Witness ==
    /\ JustBuilt
    /\ outcome = MissingDependency
    /\ ~Complete(registered)
    /\ ~CyclicMap(registered)

\* C5 - registration-order idempotence: the first build() on a builder agrees
\* with build() on any fresh builder on which the same final mapping is
\* registered key by key, in any order: same outcome, and on Ok the same number
\* of tranches with the same set of names at each index.
C5_RegistrationOrder ==
    (JustBuilt /\ builds = 1) =>
        \A o \in Orders(DOMAIN registered) :
            LET fresh == build(Registered(registered, o))
            IN  /\ fresh.result = outcome
                /\ outcome = OkOutcome =>
                      TrancheSets(generate_tranches(fresh.dependencies).tranches)
                          = TrancheSets(generate_tranches(dependencies).tranches)

\* C6 - last write wins: the graph of the Dependencies value of a successful
\* build() has an edge E -> D exactly when D is in the last list registered for
\* E, and the tranches are those of that last mapping (the depth of each element
\* in it).
C6_LastWriteWins ==
    /\ dependencies.held => NameEdges(dependencies.graph) = DependsOn(built_map)
    /\ GeneratedOk =>
          \A n \in DOMAIN built_map :
              \E k \in DOMAIN Layers :
                  n \in Range(Layers[k]) /\ k = Depth(built_map, n) + 1

\* Tranches were generated after a successful build() that came after a list
\* naming some element had been overwritten by a list not naming it, no other
\* element naming it either.
C6_Witness ==
    /\ JustBuilt
    /\ outcome = OkOutcome
    /\ GeneratedOk
    /\ \E d \in Range(all_dependencies) : \A p \in DependsOn(registered) : p[2] # d

\* C7 - error precedence: a build() on a builder with a registered dependency
\* name that is no declared element returns MissingDependency and leaves the
\* graph as it was (add_edges has not run), also when the mapping has a cycle.
C7_ErrorPrecedence ==
    [][(IsBuild /\ Range(all_dependencies) \ Range(all_elements) # {})
          => outcome' = MissingDependency /\ graph' = graph]_vars

\* build() has returned MissingDependency on a mapping that has an undeclared
\* dependency and a cycle, the graph holding no edge.
C7_Witness ==
    /\ JustBuilt
    /\ outcome = MissingDependency
    /\ ~Complete(registered)
    /\ CyclicMap(registered)
    /\ edge_count(graph) = 0

\* C8 - recovery after a failed build: when the latest build() failed and
\* add_element calls made since have left a complete and acyclic mapping, the
\* next build() succeeds.
C8_Recovery ==
    [][(/\ IsBuild
        /\ outcome \in {MissingDependency, CyclicDependency}
        /\ dirty
        /\ Complete(registered)
        /\ ~CyclicMap(registered))
          => outcome' = OkOutcome]_vars

\* C9 - tranche index equals dependency depth: tranche k (counted from 0) is
\* the set of elements whose longest dependency chain has k edges; the first
\* tranche is the set of elements with an empty list; every tranche is the set
\* of elements not placed before it whose dependencies are all placed before it.
C9_TrancheIsDepth ==
    tranches.called =>
        /\ GeneratedOk
        /\ \A n \in DOMAIN built_map : Depth(built_map, n) + 1 \in DOMAIN Layers
        /\ \A k \in DOMAIN Layers :
              /\ Range(Layers[k]) = {n \in DOMAIN built_map : Depth(built_map, n) = k - 1}
              /\ Range(Layers[k]) =
                    {n \in DOMAIN built_map \ PlacedBefore(Layers, k) :
                        DepSet(built_map, n) \subseteq PlacedBefore(Layers, k)}
        /\ Layers # <<>> =>
              Range(Layers[1]) = {n \in DOMAIN built_map : built_map[n] = <<>>}

\* Tranches were generated for an element with two dependencies of different depth.
C9_Witness ==
    /\ GeneratedOk
    /\ \E p, q \in DependsOn(built_map) :
          p[1] = q[1] /\ Depth(built_map, p[2]) # Depth(built_map, q[2])

\* C10 - mutual independence within a tranche: no element of a tranche is
\* reachable from another element of the same tranche along dependencies.
C10_TrancheIndependence ==
    tranches.called =>
        /\ GeneratedOk
        /\ \A k \in DOMAIN Layers :
              \A x, y \in Range(Layers[k]) :
                  x # y => y \notin ReachFrom(DependsOn(built_map), {x}, {})

\* Tranches were generated with two elements in one tranche and a third element
\* that depends on one of them.
C10_Witness ==
    /\ GeneratedOk
    /\ \E k \in DOMAIN Layers : Cardinality(Range(Layers[k])) >= 2
    /\ DependsOn(built_map) # {}

-----------------------------------------------------------------------------
(* C11 .. C16 *)

RECURSIVE Deduplicated(_)
Deduplicated(l) ==
    IF l = <<>> THEN <<>>
    ELSE LET front == Deduplicated(SubSeq(l, 1, Len(l) - 1))
         IN  IF l[Len(l)] \in Range(front) THEN front ELSE Append(front, l[Len(l)])

HasDuplicates(l) == Len(l) > Cardinality(Range(l))

\* C12 - duplicate dependency names are tolerated: when some registered list
\* repeats a name, build() on a fresh builder on which the mapping is registered
\* gives the outcome it gives when every list is registered without its repeated
\* names, and on Ok generate_tranches() returns Ok with the same set of names at
\* every tranche index.
C12_DuplicatesTolerated ==
    (JustBuilt /\ \E n \in DOMAIN registered : HasDuplicates(registered[n])) =>
        \A o \in Orders(DOMAIN registered) :
            LET repeated == build(Registered(registered, o))
                plain == build(Registered([n \in DOMAIN registered |->
                                              Deduplicated(registered[n])], o))
            IN  /\ repeated.result = plain.result
                /\ repeated.result = OkOutcome =>
                      LET with_repeats == generate_tranches(repeated.dependencies)
                          without == generate_tranches(plain.dependencies)
                      IN  /\ with_repeats.result = OkOutcome
                          /\ ~with_repeats.diverged
                          /\ TrancheSets(with_repeats.tranches)
                                = TrancheSets(without.tranches)

\* build() succeeded on a mapping with a list that repeats a name, the graph
\* holds parallel edges, and tranches were generated from it.
C12_Witness ==
    /\ JustBuilt
    /\ outcome = OkOutcome
    /\ GeneratedOk
    /\ \E n \in DOMAIN registered : HasDuplicates(registered[n])
    /\ \E p \in DOMAIN dependencies.graph.edges : dependencies.graph.edges[p] >= 2

\* The builder as the add_element calls made so far leave a fresh builder when
\* no build() comes between them: add_element adds no edge and build() changes
\* nothing but the edges.
NeverBuilt == [Builder EXCEPT !.graph = clear_edges(@)]

\* C13 - build is history-independent: what a build() returned (the error, or Ok
\* and the graph handed out) is what one build() returns on a fresh builder that
\* was given the same registrations and never built before.
C13_HistoryIndependent ==
    JustBuilt =>
        /\ build(NeverBuilt).result = outcome
        /\ outcome = OkOutcome => build(NeverBuilt).dependencies = dependencies

\* C14 - termination of tranche generation: with N declared elements the outer
\* loop ends, having pushed one tranche per iteration, after at most N
\* iterations; no tranche is empty, and there is no tranche when N = 0.
C14_Termination ==
    tranches.called =>
        /\ ~tranches.diverged
        /\ tranches.result = OkOutcome
        /\ Len(Layers) <= Cardinality(DOMAIN built_map)
        /\ \A k \in DOMAIN Layers : Layers[k] # <<>>
        /\ DOMAIN built_map = {} => Layers = <<>>

\* Tranches were generated in as many iterations as there are elements, three.
C14_Witness ==
    /\ GeneratedOk
    /\ Cardinality(DOMAIN built_map) = 3
    /\ Len(Layers) = 3

\* all_elements, the nodes of the graph and the keys of dependency_map are the
\* registered names, each once, and the handle stored for a name indexes the
\* node weighted with that name.
OneNodePerElement ==
    /\ Len(all_elements) = Cardinality(DOMAIN registered)
    /\ Range(all_elements) = DOMAIN registered
    /\ node_count(graph) = Cardinality(DOMAIN registered)
    /\ Range(graph.nodes) = DOMAIN registered
    /\ DOMAIN dependency_map = DOMAIN registered
    /\ \A n \in DOMAIN dependency_map :
          /\ dependency_map[n].node \in DOMAIN graph.nodes
          /\ graph.nodes[dependency_map[n].node] = n

\* No step drops a name or gives a known name another handle.
HandlesKept ==
    /\ DOMAIN registered \subseteq DOMAIN registered'
    /\ \A n \in DOMAIN dependency_map :
          /\ n \in DOMAIN dependency_map'
          /\ dependency_map'[n].node = dependency_map[n].node

\* C15 - one node per declared element: in every state the builder has one
\* node, one all_elements entry and one dependency_map key per registered name,
\* each handle indexing the node of its name; and every step keeps the names
\* and the handle each name received when it was first registered.
C15_OneNodePerElement == []OneNodePerElement /\ [][HandlesKept]_vars

\* Two elements are registered and some list has been overwritten.
C15_Witness ==
    /\ Cardinality(DOMAIN registered) >= 2
    /\ Len(all_dependencies) > Cardinality(EdgePairs(dependency_map))
    /\ \E n \in DOMAIN registered : registered[n] # <<>>

\* The lookups of one pass of generate_tranches: each name, in turn, is found in
\* the working graph as the removals before it left it, at a node carrying it.
RECURSIVE LookupsHit(_, _)
LookupsHit(g, node_to_remove) ==
    \/ node_to_remove = <<>>
    \/ LET node_index == find_node_by_name(g, Head(node_to_remove)[2])
       IN  /\ node_index # None
           /\ node_index \in DOMAIN g.nodes
           /\ g.nodes[node_index] = Head(node_to_remove)[2]
           /\ LookupsHit(remove_node(g, node_index), Tail(node_to_remove))

\* The lookups of every pass, from the graph a pass starts with.
RECURSIVE AllLookupsHit(_)
AllLookupsHit(g) ==
    \/ node_count(g) = 0
    \/ node_to_remove_of(g) = <<>>
    \/ /\ LookupsHit(g, node_to_remove_of(g))
       /\ ~remove_layer(g, node_to_remove_of(g), <<>>).error
       /\ AllLookupsHit(remove_layer(g, node_to_remove_of(g), <<>>).graph)

\* C16 - generate_tranches() never returns "Node not found" on the value of a
\* build(): every name of every frontier is found when it is looked up, and the
\* node found, which is the node removed, carries that name.
C16_NodeAlwaysFound ==
    tranches.called =>
        /\ tranches.result # NodeNotFound
        /\ AllLookupsHit(dependencies.graph)

\* Tranches were generated from three nodes where removing node 0 alone moved
\* the last node to index 0, so the second frontier lists it before node 1.
C16_Witness ==
    /\ GeneratedOk
    /\ node_count(dependencies.graph) = 3
    /\ Len(Layers) = 2
    /\ Layers[1] = <<dependencies.graph.nodes[1]>>
    /\ Layers[2] = <<dependencies.graph.nodes[3], dependencies.graph.nodes[2]>>

====
